---- MODULE Spec2Model ----
(***************************************************************************)
(* Model of repositories.UserRepository (go-role): the user_roles and      *)
(* user_permissions association tables, the eight mutating operations and  *)
(* the six query operations, each with the storage request it issues       *)
(* through gorm, and the Replace transaction step by step.                 *)
(***************************************************************************)
EXTENDS Integers, Sequences, FiniteSets, TLC

\* ------------------------------------------------------------------ bounds
\* An input collection holds at most MaxLen entities (repetitions allowed).
MaxLen == 2

\* the users, and the role / permission IDs, of the model
Users == {"u1", "u2"}
Ids == {1, 2}
Keys == Users \X Ids

RECURSIVE SeqsUpTo(_)
SeqsUpTo(n) == IF n = 0 THEN {<<>>}
               ELSE LET shorter == SeqsUpTo(n - 1)
                    IN  shorter \cup {Append(s, i) : s \in {x \in shorter : Len(x) = n - 1}, i \in Ids}
\* every collections.Role / collections.Permission value a caller can pass
Collections == SeqsUpTo(MaxLen)

Range(s) == {s[i] : i \in DOMAIN s}

\* ------------------------------------------------------------------ errors
Nil == "nil"
ErrStorage == "storage failure"
ErrEmptySlice == "empty slice found"
ErrMissingWhereClause == "WHERE conditions required"

\* ------------------------------------------------------------------ state
VARIABLES
    userRoles,        \* table user_roles: (user_id, role_id) -> number of rows
    userPermissions,  \* table user_permissions: (user_id, permission_id) -> number of rows
    last,             \* the call that has just returned, with what it returned
    preRoles,         \* user_roles as it was when that call started
    prePermissions,   \* user_permissions as it was when that call started
    tx                \* the calls in flight that run step by step (TxSpec)

vars == <<userRoles, userPermissions, last, preRoles, prePermissions, tx>>

EmptyTable == [k \in Keys |-> 0]

\* the set of IDs associated with user u in table t
IdsOf(t, u) == {i \in Ids : t[<<u, i>>] > 0}

\* ------------------------------------------------------------ collections
\* collections.Role / collections.Permission: a slice of entities, here the
\* slice of their IDs; nothing in it enforces uniqueness.
Origin(c) == c
IDs(c) == [i \in DOMAIN c |-> c[i]]
LenOf(c) == Len(c)

\* -------------------------------------------------------- storage requests
\* an INSERT that adds every row, whether or not its key is already there
RECURSIVE InsertAlways(_, _)
InsertAlways(t, rows) ==
    IF rows = <<>> THEN t
    ELSE InsertAlways([t EXCEPT ![Head(rows)] = @ + 1], Tail(rows))

\* INSERT ... ON CONFLICT DO NOTHING of the rows, one after the other: a row
\* whose primary key is already in the table is skipped.
RECURSIVE InsertIgnore(_, _)
InsertIgnore(t, rows) ==
    IF rows = <<>> THEN t
    ELSE LET k == Head(rows)
         IN  InsertIgnore(IF t[k] = 0 THEN [t EXCEPT ![k] = 1] ELSE t, Tail(rows))

\* Create that sends one INSERT per row outside any transaction: when the
\* store fails, the rows before the failing one stay inserted.
CreateRowByRow(t, rows, fail) ==
    IF Len(rows) = 0 THEN [table |-> t, err |-> ErrEmptySlice]
    ELSE IF fail THEN [table |-> InsertIgnore(t, SubSeq(rows, 1, Len(rows) - 1)),
                       err |-> ErrStorage]
    ELSE [table |-> InsertIgnore(t, rows), err |-> Nil]

\* Clauses(clause.OnConflict{DoNothing: true}).Create(&rows): gorm refuses an
\* empty slice with ErrEmptySlice before it reaches the store; `fail` is the
\* store failing the statement.
Create(t, rows, fail) ==
    IF Len(rows) = 0 THEN [table |-> t, err |-> ErrEmptySlice]
    ELSE IF fail THEN [table |-> t, err |-> ErrStorage]
    ELSE [table |-> InsertIgnore(t, rows), err |-> Nil]

\* Delete(&rows): DELETE ... WHERE (user_id, id) IN (primary keys of rows);
\* with no row there is no WHERE clause and gorm refuses the statement.
DeleteRows(t, rows, fail) ==
    IF Len(rows) = 0 THEN [table |-> t, err |-> ErrMissingWhereClause]
    ELSE IF fail THEN [table |-> t, err |-> ErrStorage]
    ELSE [table |-> [k \in Keys |-> IF k \in Range(rows) THEN 0 ELSE t[k]], err |-> Nil]

\* the delete without its Where condition: every row of the table
DeleteWithoutWhere(t, userID, fail) ==
    IF fail THEN [table |-> t, err |-> ErrStorage]
    ELSE [table |-> [k \in Keys |-> 0], err |-> Nil]

\* Where("user_id = ?", userID).Delete(&pivot{}): every row of the user.
DeleteWhereUser(t, userID, fail) ==
    IF fail THEN [table |-> t, err |-> ErrStorage]
    ELSE [table |-> [k \in Keys |-> IF k[1] = userID THEN 0 ELSE t[k]], err |-> Nil]

RECURSIVE SumRows(_, _, _)
SumRows(t, userID, ids) ==
    IF ids = {} THEN 0
    ELSE LET i == CHOOSE x \in ids : TRUE
         IN  t[<<userID, i>>] + SumRows(t, userID, ids \ {i})

\* Table(..).Where("user_id = ?").Where("id IN (?)", ids).Count(&count):
\* the number of rows of the user whose ID is among ids (an empty list is
\* rendered IN (NULL) and matches nothing); a failed request leaves count 0.
Count(t, userID, ids, fail) ==
    IF fail THEN [count |-> 0, err |-> ErrStorage]
    ELSE [count |-> SumRows(t, userID, Range(ids) \cap Ids), err |-> Nil]

\* the pivot rows built by the loop over Origin()
Rows(userID, c) == [i \in DOMAIN Origin(c) |-> <<userID, Origin(c)[i]>>]

\* Transaction without its rollback: the block's writes stay whatever it
\* returns (the statements run on the plain handle).
TransactionWithoutRollback(snapshot, work, commitFails) ==
    IF work.err # Nil THEN work
    ELSE IF commitFails THEN [table |-> work.table, err |-> ErrStorage]
    ELSE [table |-> work.table, err |-> Nil]

\* Database.Transaction(func(tx) error {...}): the block's writes are
\* committed when it returns nil and the commit succeeds, and rolled back
\* otherwise, which restores the table as it was at the start.
Transaction(snapshot, work, commitFails) ==
    IF work.err # Nil THEN [table |-> snapshot, err |-> work.err]
    ELSE IF commitFails THEN [table |-> snapshot, err |-> ErrStorage]
    ELSE [table |-> work.table, err |-> Nil]

\* ------------------------------------------------------- mutating results
\* Each gives [table, err]: the table after the call and the error returned.
FailPoints == {"none", "statement"}
ReplaceFailPoints == {"none", "delete", "insert", "commit"}

\* Add without the OnConflict clause: a plain INSERT, which the primary key
\* refuses as soon as one row is already there or is named twice.
AddWithoutOnConflict(t, userID, c, f) ==
    LET rows == Rows(userID, c)
        clash == \/ \E i \in DOMAIN rows : t[rows[i]] > 0
                 \/ \E i, j \in DOMAIN rows : i # j /\ rows[i] = rows[j]
    IN  IF Len(rows) = 0 THEN [table |-> t, err |-> ErrEmptySlice]
        ELSE IF f = "statement" \/ clash THEN [table |-> t, err |-> ErrStorage]
        ELSE [table |-> InsertIgnore(t, rows), err |-> Nil]

Add(t, userID, c, f) == Create(t, Rows(userID, c), f = "statement")

Replace(t, userID, c, f) ==
    LET deleted == DeleteWhereUser(t, userID, f = "delete")
        work == IF deleted.err # Nil THEN deleted
                ELSE Create(deleted.table, Rows(userID, c), f = "insert")
    IN  Transaction(t, work, f = "commit")

Remove(t, userID, c, f) == DeleteRows(t, Rows(userID, c), f = "statement")

\* Clear that deletes one row of the user instead of all of them
ClearOneRow(t, userID, f) ==
    IF f = "statement" THEN [table |-> t, err |-> ErrStorage]
    ELSE IF IdsOf(t, userID) = {} THEN [table |-> t, err |-> Nil]
    ELSE LET i == CHOOSE x \in IdsOf(t, userID) : \A y \in IdsOf(t, userID) : x <= y
         IN  [table |-> [t EXCEPT ![<<userID, i>>] = 0], err |-> Nil]

Clear(t, userID, f) == DeleteWhereUser(t, userID, f = "statement")

\* --------------------------------------------------------- query results
\* Each gives [b, err].
Has(t, userID, id, f) ==
    LET q == Count(t, userID, <<id>>, f = "statement")
    IN  [b |-> q.count > 0, err |-> q.err]

HasAll(t, userID, c, f) ==
    LET q == Count(t, userID, IDs(c), f = "statement")
    IN  [b |-> LenOf(c) = q.count, err |-> q.err]

\* HasAny with HasAll's comparison
HasAnyComparingLen(t, userID, c, f) ==
    LET q == Count(t, userID, IDs(c), f = "statement")
    IN  [b |-> LenOf(c) = q.count, err |-> q.err]

HasAny(t, userID, c, f) ==
    LET q == Count(t, userID, IDs(c), f = "statement")
    IN  [b |-> q.count > 0, err |-> q.err]

\* ------------------------------------------------------------------ calls
\* the concurrent callers of TxSpec, and a caller that is not in a call
Procs == {"p1", "p2"}
IdleTx == [pc |-> "idle", op |-> "none", user |-> "u1", arg |-> <<>>, del |-> {}, ins |-> {},
           idx |-> 0, order |-> 0, err |-> Nil]

NoCall == [op |-> "none", user |-> "u1", arg |-> <<>>, fail |-> "none", err |-> Nil, b |-> FALSE]

Idle == last.op = "none"

Returned(op, u, c, f, err, b) ==
    /\ last' = [op |-> op, user |-> u, arg |-> c, fail |-> f, err |-> err, b |-> b]
    /\ preRoles' = userRoles
    /\ prePermissions' = userPermissions

Init ==
    /\ userRoles = EmptyTable
    /\ userPermissions = EmptyTable
    /\ last = NoCall
    /\ preRoles = EmptyTable
    /\ prePermissions = EmptyTable
    /\ tx = [p \in Procs |-> IdleTx]

AddPermissions(u, c, f) ==
    /\ Idle
    /\ LET r == Add(userPermissions, u, c, f)
       IN  /\ userPermissions' = r.table
           /\ Returned("AddPermissions", u, c, f, r.err, FALSE)
    /\ UNCHANGED <<userRoles, tx>>

\* ReplacePermissions that has lost its delete step: it only inserts
ReplacePermissionsWithoutDelete(u, c, f) ==
    /\ Idle
    /\ LET r == Transaction(userPermissions,
                            Create(userPermissions, Rows(u, c), f \in {"delete", "insert"}),
                            f = "commit")
       IN  /\ userPermissions' = r.table
           /\ Returned("ReplacePermissions", u, c, f, r.err, FALSE)
    /\ UNCHANGED <<userRoles, tx>>

ReplacePermissions(u, c, f) ==
    /\ Idle
    /\ LET r == Replace(userPermissions, u, c, f)
       IN  /\ userPermissions' = r.table
           /\ Returned("ReplacePermissions", u, c, f, r.err, FALSE)
    /\ UNCHANGED <<userRoles, tx>>

RemovePermissions(u, c, f) ==
    /\ Idle
    /\ LET r == Remove(userPermissions, u, c, f)
       IN  /\ userPermissions' = r.table
           /\ Returned("RemovePermissions", u, c, f, r.err, FALSE)
    /\ UNCHANGED <<userRoles, tx>>

ClearPermissions(u, f) ==
    /\ Idle
    /\ LET r == Clear(userPermissions, u, f)
       IN  /\ userPermissions' = r.table
           /\ Returned("ClearPermissions", u, <<>>, f, r.err, FALSE)
    /\ UNCHANGED <<userRoles, tx>>

AddRoles(u, c, f) ==
    /\ Idle
    /\ LET r == Add(userRoles, u, c, f)
       IN  /\ userRoles' = r.table
           /\ Returned("AddRoles", u, c, f, r.err, FALSE)
    /\ UNCHANGED <<userPermissions, tx>>

ReplaceRoles(u, c, f) ==
    /\ Idle
    /\ LET r == Replace(userRoles, u, c, f)
       IN  /\ userRoles' = r.table
           /\ Returned("ReplaceRoles", u, c, f, r.err, FALSE)
    /\ UNCHANGED <<userPermissions, tx>>

RemoveRoles(u, c, f) ==
    /\ Idle
    /\ LET r == Remove(userRoles, u, c, f)
       IN  /\ userRoles' = r.table
           /\ Returned("RemoveRoles", u, c, f, r.err, FALSE)
    /\ UNCHANGED <<userPermissions, tx>>

ClearRoles(u, f) ==
    /\ Idle
    /\ LET r == Clear(userRoles, u, f)
       IN  /\ userRoles' = r.table
           /\ Returned("ClearRoles", u, <<>>, f, r.err, FALSE)
    /\ UNCHANGED <<userPermissions, tx>>

\* HasRole written with a find-or-create request: a missing row is inserted
HasRoleFirstOrCreate(u, id, f) ==
    /\ Idle
    /\ LET r == Has(userRoles, u, id, f)
       IN  /\ Returned("HasRole", u, <<id>>, f, r.err, r.b)
           /\ userRoles' = IF r.err = Nil THEN InsertIgnore(userRoles, <<<<u, id>>>>)
                           ELSE userRoles
    /\ UNCHANGED <<userPermissions, tx>>

HasRole(u, id, f) ==
    /\ Idle
    /\ LET r == Has(userRoles, u, id, f)
       IN  Returned("HasRole", u, <<id>>, f, r.err, r.b)
    /\ UNCHANGED <<userRoles, userPermissions, tx>>

HasAllRoles(u, c, f) ==
    /\ Idle
    /\ LET r == HasAll(userRoles, u, c, f)
       IN  Returned("HasAllRoles", u, c, f, r.err, r.b)
    /\ UNCHANGED <<userRoles, userPermissions, tx>>

HasAnyRoles(u, c, f) ==
    /\ Idle
    /\ LET r == HasAny(userRoles, u, c, f)
       IN  Returned("HasAnyRoles", u, c, f, r.err, r.b)
    /\ UNCHANGED <<userRoles, userPermissions, tx>>

\* HasDirectPermission counting in table user_roles (the role query's table)
HasDirectPermissionOnUserRoles(u, id, f) ==
    /\ Idle
    /\ LET r == Has(userRoles, u, id, f)
       IN  Returned("HasDirectPermission", u, <<id>>, f, r.err, r.b)
    /\ UNCHANGED <<userRoles, userPermissions, tx>>

HasDirectPermission(u, id, f) ==
    /\ Idle
    /\ LET r == Has(userPermissions, u, id, f)
       IN  Returned("HasDirectPermission", u, <<id>>, f, r.err, r.b)
    /\ UNCHANGED <<userRoles, userPermissions, tx>>

HasAllDirectPermissions(u, c, f) ==
    /\ Idle
    /\ LET r == HasAll(userPermissions, u, c, f)
       IN  Returned("HasAllDirectPermissions", u, c, f, r.err, r.b)
    /\ UNCHANGED <<userRoles, userPermissions, tx>>

HasAnyDirectPermissions(u, c, f) ==
    /\ Idle
    /\ LET r == HasAny(userPermissions, u, c, f)
       IN  Returned("HasAnyDirectPermissions", u, c, f, r.err, r.b)
    /\ UNCHANGED <<userRoles, userPermissions, tx>>

\* the caller has read the result and is free to make its next call
NextCall ==
    /\ ~Idle
    /\ last' = NoCall
    /\ preRoles' = userRoles
    /\ prePermissions' = userPermissions
    /\ UNCHANGED <<userRoles, userPermissions, tx>>

Next ==
    \/ \E u \in Users, c \in Collections, f \in FailPoints : AddPermissions(u, c, f)
    \/ \E u \in Users, c \in Collections, f \in ReplaceFailPoints : ReplacePermissions(u, c, f)
    \/ \E u \in Users, c \in Collections, f \in FailPoints : RemovePermissions(u, c, f)
    \/ \E u \in Users, f \in FailPoints : ClearPermissions(u, f)
    \/ \E u \in Users, c \in Collections, f \in FailPoints : AddRoles(u, c, f)
    \/ \E u \in Users, c \in Collections, f \in ReplaceFailPoints : ReplaceRoles(u, c, f)
    \/ \E u \in Users, c \in Collections, f \in FailPoints : RemoveRoles(u, c, f)
    \/ \E u \in Users, f \in FailPoints : ClearRoles(u, f)
    \/ \E u \in Users, id \in Ids, f \in FailPoints : HasRole(u, id, f)
    \/ \E u \in Users, c \in Collections, f \in FailPoints : HasAllRoles(u, c, f)
    \/ \E u \in Users, c \in Collections, f \in FailPoints : HasAnyRoles(u, c, f)
    \/ \E u \in Users, id \in Ids, f \in FailPoints : HasDirectPermission(u, id, f)
    \/ \E u \in Users, c \in Collections, f \in FailPoints : HasAllDirectPermissions(u, c, f)
    \/ \E u \in Users, c \in Collections, f \in FailPoints : HasAnyDirectPermissions(u, c, f)
    \/ NextCall

Spec == Init /\ [][Next]_vars


\* ------------------------------------------------- concurrent callers
\* Two callers run ReplaceRoles / AddRoles at once against a store that
\* gives read-committed isolation: a statement sees the committed rows and
\* its own transaction's writes, never another transaction's uncommitted
\* ones, and it waits while a row it must read or write is write-locked by
\* another transaction in progress; the store may end any statement, a
\* waiting one included, with an error (failure, deadlock victim, lock
\* timeout).  tx[p].del / tx[p].ins are the keys whose rows p's transaction
\* has deleted / inserted and not yet committed, tx[p].idx the number of rows
\* of its INSERT the store has gone through, tx[p].order the rank of its
\* commit among the commits so far (0: not committed).

\* what a statement of p's transaction sees
View(p) == [k \in Keys |-> IF k \in tx[p].ins THEN 1
                           ELSE IF k \in tx[p].del THEN 0
                           ELSE userRoles[k]]

\* the keys write-locked by the other transactions in progress
LockedByOthers(p) == UNION {tx[q].del \cup tx[q].ins : q \in Procs \ {p}}

Finished(p, err) == [tx[p] EXCEPT !.pc = "done", !.del = {}, !.ins = {}, !.err = err]

\* the rank of the next commit
NextOrder == Cardinality({q \in Procs : tx[q].order > 0}) + 1

\* Database.Transaction begins the transaction and enters the block
ReplaceRolesBegin(p, u, c) ==
    /\ tx[p].pc = "idle"
    /\ tx' = [tx EXCEPT ![p] = [IdleTx EXCEPT !.pc = "delete", !.op = "ReplaceRoles",
                                              !.user = u, !.arg = c]]
    /\ UNCHANGED <<userRoles, userPermissions, last, preRoles, prePermissions>>

\* tx.Where("user_roles.user_id = ?", userID).Delete(&pivot.UserRoles{}): the
\* rows it deletes are the user's rows it sees; on an error the block rolls
\* back and returns the error.
ReplaceRolesDelete(p, fail) ==
    /\ tx[p].pc = "delete"
    /\ LET seen == View(p)
           r == DeleteWhereUser(seen, tx[p].user, fail)
           gone == {k \in Keys : seen[k] > 0 /\ r.table[k] = 0}
       IN  /\ fail \/ gone \cap LockedByOthers(p) = {}
           /\ tx' = [tx EXCEPT ![p] =
                        IF r.err # Nil THEN Finished(p, r.err)
                        ELSE [@ EXCEPT !.pc = "insert", !.del = @ \cup gone]]
    /\ UNCHANGED <<userRoles, userPermissions, last, preRoles, prePermissions>>

\* the insert step that tries its statement again when it returns an error
ReplaceRolesInsertRetrying(p, fail) ==
    /\ tx[p].pc = "insert"
    /\ LET seen == View(p)
           rows == Rows(tx[p].user, tx[p].arg)
           r == Create(seen, rows, fail)
           row == rows[tx[p].idx + 1]
           new == {k \in Keys : seen[k] = 0 /\ InsertIgnore(seen, <<row>>)[k] > 0}
       IN  IF r.err # Nil
           THEN tx' = [tx EXCEPT ![p] = [@ EXCEPT !.idx = 0]]
           ELSE /\ row \notin LockedByOthers(p)
                /\ tx' = [tx EXCEPT ![p] =
                             [@ EXCEPT !.idx = @ + 1, !.ins = @ \cup new,
                                       !.pc = IF tx[p].idx + 1 = Len(rows)
                                              THEN "commit" ELSE "insert"]]
    /\ UNCHANGED <<userRoles, userPermissions, last, preRoles, prePermissions>>

\* tx.Clauses(clause.OnConflict{DoNothing: true}).Create(&userRoles): gorm
\* refuses an empty slice; otherwise the store goes through the rows of the
\* INSERT one at a time, waiting on a key another transaction has written,
\* skipping a key it sees a row for and inserting the others.  On an error
\* the block rolls back and returns the error.
ReplaceRolesInsert(p, fail) ==
    /\ tx[p].pc = "insert"
    /\ LET seen == View(p)
           rows == Rows(tx[p].user, tx[p].arg)
           r == Create(seen, rows, fail)
           row == rows[tx[p].idx + 1]
           new == {k \in Keys : seen[k] = 0 /\ InsertIgnore(seen, <<row>>)[k] > 0}
       IN  IF r.err # Nil
           THEN tx' = [tx EXCEPT ![p] = Finished(p, r.err)]
           ELSE /\ row \notin LockedByOthers(p)
                /\ tx' = [tx EXCEPT ![p] =
                             [@ EXCEPT !.idx = @ + 1, !.ins = @ \cup new,
                                       !.pc = IF tx[p].idx + 1 = Len(rows)
                                              THEN "commit" ELSE "insert"]]
    /\ UNCHANGED <<userRoles, userPermissions, last, preRoles, prePermissions>>

\* the block returned nil: Transaction commits, and rolls back when the
\* commit fails
ReplaceRolesCommit(p, fail) ==
    /\ tx[p].pc = "commit"
    /\ LET r == Transaction(userRoles, [table |-> View(p), err |-> Nil], fail)
       IN  /\ userRoles' = r.table
           /\ tx' = [tx EXCEPT ![p] =
                        [Finished(p, r.err) EXCEPT
                            !.order = IF r.err = Nil THEN NextOrder ELSE 0]]
    /\ UNCHANGED <<userPermissions, last, preRoles, prePermissions>>

\* AddRoles from a concurrent caller: one statement, committed on its own
AddRolesConcurrently(p, u, c, f) ==
    /\ tx[p].pc = "idle"
    /\ f = "statement" \/ Range(Rows(u, c)) \cap LockedByOthers(p) = {}
    /\ LET r == Add(userRoles, u, c, f)
       IN  /\ userRoles' = r.table
           /\ tx' = [tx EXCEPT ![p] =
                        [IdleTx EXCEPT !.pc = "done", !.op = "AddRoles", !.user = u,
                                       !.arg = c, !.err = r.err,
                                       !.order = IF r.err = Nil THEN NextOrder ELSE 0]]
    /\ UNCHANGED <<userPermissions, last, preRoles, prePermissions>>

\* the tables a caller can find: any set of rows, one row per key
Tables == [Keys -> {0, 1}]
TxUser == "u1"

TxInit ==
    /\ userRoles \in {t \in Tables : \A k \in Keys : k[1] # TxUser => t[k] = 0}
    /\ userPermissions = EmptyTable
    /\ last = NoCall
    /\ preRoles = userRoles
    /\ prePermissions = userPermissions
    /\ tx = [p \in Procs |-> IdleTx]

TxNext ==
    \/ \E p \in Procs, c \in Collections : ReplaceRolesBegin(p, TxUser, c)
    \/ \E p \in Procs, fail \in BOOLEAN : ReplaceRolesDelete(p, fail)
    \/ \E p \in Procs, fail \in BOOLEAN : ReplaceRolesInsert(p, fail)
    \/ \E p \in Procs, fail \in BOOLEAN : ReplaceRolesCommit(p, fail)
    \/ \E p \in Procs, c \in Collections, f \in FailPoints : AddRolesConcurrently(p, TxUser, c, f)

TxSpec == TxInit /\ [][TxNext]_vars

\* a call that has started goes on: its goroutine is scheduled, and the
\* store completes each statement it is sent
Step(p) ==
    \E fail \in BOOLEAN :
        ReplaceRolesDelete(p, fail) \/ ReplaceRolesInsert(p, fail) \/ ReplaceRolesCommit(p, fail)

FairTxSpec == TxSpec /\ \A p \in Procs : WF_vars(Step(p))

\* ================================================================= claims
Queries == {"HasRole", "HasAllRoles", "HasAnyRoles",
            "HasDirectPermission", "HasAllDirectPermissions", "HasAnyDirectPermissions"}
RoleOps == {"AddRoles", "ReplaceRoles", "RemoveRoles", "ClearRoles",
            "HasRole", "HasAllRoles", "HasAnyRoles"}

\* the table the last call was about, now and when the call started
TableNow == IF last.op \in RoleOps THEN userRoles ELSE userPermissions
TableBefore == IF last.op \in RoleOps THEN preRoles ELSE prePermissions
NowOf(u) == IdsOf(TableNow, u)
BeforeOf(u) == IdsOf(TableBefore, u)
Healthy == last.fail = "none"

\* C1: with a healthy store, AddRoles(U, R) returns no error and the
\* HasAllRoles(U, R) that follows it returns true with no error, for every
\* R, the empty one and those that repeat a role included.
C1_AddThenHasAll ==
    (last.op = "AddRoles" /\ Healthy) =>
        /\ last.err = Nil
        /\ HasAll(userRoles, last.user, last.arg, "none") = [b |-> TRUE, err |-> Nil]

\* C2: with a healthy store, a ReplaceRoles(U, R2) that follows any earlier
\* ReplaceRoles(U, R1) returns no error and leaves U's roles exactly the set
\* of roles in R2 (R2 may be empty or repeat roles).
C2_ReplaceLeavesExactlyArg ==
    (last.op = "ReplaceRoles" /\ Healthy) =>
        /\ last.err = Nil
        /\ NowOf(last.user) = Range(last.arg)

\* C3: a ReplaceRoles / ReplacePermissions whose delete step or insert step
\* fails returns that error (the storage error when the store failed the
\* statement), and whenever a Replace returns an error both tables are
\* exactly as they were before the call; when it returns none, the user's
\* set is the inserted one: the delete is never committed without the insert.
C3_ReplaceAllOrNothing ==
    last.op \in {"ReplaceRoles", "ReplacePermissions"} =>
        /\ last.fail \in {"delete", "insert"} => last.err # Nil
        /\ (last.fail = "delete" \/ (last.fail = "insert" /\ last.arg # <<>>))
              => last.err = ErrStorage
        /\ last.err # Nil => (userRoles = preRoles /\ userPermissions = prePermissions)
        /\ last.err = Nil => (NowOf(last.user) = Range(last.arg) /\ last.arg # <<>>)

\* the insert phase of ReplacePermissions failed after the delete phase
\* succeeded, for a user who had permissions, and they are all still there
C3_Witness ==
    /\ last.op = "ReplacePermissions"
    /\ last.fail = "insert"
    /\ last.arg # <<>>
    /\ last.err = ErrStorage
    /\ BeforeOf(last.user) # {}
    /\ NowOf(last.user) = BeforeOf(last.user)

\* C5: with a healthy store, HasAllRoles / HasAllDirectPermissions returns
\* true exactly when every entity named in R is associated with U, R being
\* judged by the set of entities it names.
C5_HasAllIffSubset ==
    (last.op \in {"HasAllRoles", "HasAllDirectPermissions"} /\ Healthy) =>
        /\ last.err = Nil
        /\ last.b = (Range(last.arg) \subseteq NowOf(last.user))

\* C6: a query whose storage request fails returns false together with the
\* error, whatever the query and its argument.
C6_FailedQueryReturnsFalse ==
    (last.op \in Queries /\ last.fail = "statement") =>
        /\ last.err # Nil
        /\ last.b = FALSE

\* C7: after an Add that the store did not fail, running the same Add again
\* (whether or not the store then fails) leaves the table as the first left
\* it; and with a healthy store an Add
\* that names a pair already present returns no error and leaves that pair's
\* row as it was.
C7_AddIdempotent ==
    last.op \in {"AddRoles", "AddPermissions"} =>
        /\ Healthy => \A f \in FailPoints :
                          Add(TableNow, last.user, last.arg, f).table = TableNow
        /\ (Healthy /\ Range(last.arg) \cap BeforeOf(last.user) # {}) =>
              /\ last.err = Nil
              /\ \A i \in Range(last.arg) \cap BeforeOf(last.user) :
                    TableNow[<<last.user, i>>] = TableBefore[<<last.user, i>>]

\* an AddRoles whose collection partly overlaps the roles the user had
C7_Witness ==
    /\ last.op = "AddRoles"
    /\ Healthy
    /\ Range(last.arg) \cap BeforeOf(last.user) # {}
    /\ Range(last.arg) \ BeforeOf(last.user) # {}
    /\ NowOf(last.user) = BeforeOf(last.user) \cup Range(last.arg)

\* C8: with a healthy store, AddRoles / AddPermissions returns no error for
\* every input collection, and the user's set becomes the prior set united
\* with the entities named in the input.
C8_AddFailsOnlyOnStorage ==
    (last.op \in {"AddRoles", "AddPermissions"} /\ Healthy) =>
        /\ last.err = Nil
        /\ NowOf(last.user) = BeforeOf(last.user) \cup Range(last.arg)

\* C9: with a healthy store, RemoveRoles / RemovePermissions returns no
\* error for every input collection (an empty one included) and deletes
\* exactly the rows (U, x) with x named in R.
C9_RemoveExactly ==
    (last.op \in {"RemoveRoles", "RemovePermissions"} /\ Healthy) =>
        /\ last.err = Nil
        /\ TableNow = [k \in Keys |-> IF k[1] = last.user /\ k[2] \in Range(last.arg)
                                      THEN 0 ELSE TableBefore[k]]

\* C10: a HasAnyRoles / HasAnyDirectPermissions that the store answers
\* returns false exactly when no entity named in R is associated with U.
C10_HasAnyIffIntersects ==
    (last.op \in {"HasAnyRoles", "HasAnyDirectPermissions"} /\ Healthy) =>
        /\ last.err = Nil
        /\ (last.b = FALSE) <=> (NowOf(last.user) \cap Range(last.arg) = {})

\* HasAnyRoles returned true for a collection of which the user holds one
\* role and lacks another
C10_Witness ==
    /\ last.op = "HasAnyRoles"
    /\ Healthy
    /\ last.b = TRUE
    /\ Range(last.arg) \cap NowOf(last.user) # {}
    /\ Range(last.arg) \ NowOf(last.user) # {}

\* -------------------------------------------------------------- C4
\* the table after the call of caller p has run alone on table t
AfterCall(t, p) ==
    IF tx[p].op = "ReplaceRoles" THEN Replace(t, tx[p].user, tx[p].arg, "none").table
    ELSE IF tx[p].op = "AddRoles" THEN Add(t, tx[p].user, tx[p].arg, "none").table
    ELSE t

\* the tables that running none, one or all of the calls made so far, one
\* after the other in some order, leaves from the table they started from
SerialOutcomes ==
    {preRoles}
        \cup {AfterCall(preRoles, p) : p \in Procs}
        \cup {AfterCall(AfterCall(preRoles, p), q) : <<p, q>> \in {pq \in Procs \X Procs : pq[1] # pq[2]}}

\* C4: under read-committed isolation, whatever the interleaving of a
\* ReplaceRoles with another ReplaceRoles or an AddRoles on the same user, the
\* committed user_roles is always the fully-old or the fully-new table of the
\* participating calls: one that running them one after the other can leave.
C4_FullyOldOrFullyNew == userRoles \in SerialOutcomes

\* -------------------------------------------------------------- C11
\* right after a Clear the store did not fail: no error, no row of the user
\* left, and every HasAny (non-empty R) and every Has answers false
ClearedNow ==
    (last.op \in {"ClearRoles", "ClearPermissions"} /\ Healthy) =>
        /\ last.err = Nil
        /\ NowOf(last.user) = {}
        /\ \A c \in Collections \ {<<>>} :
              HasAny(TableNow, last.user, c, "none") = [b |-> FALSE, err |-> Nil]
        /\ \A id \in Ids :
              Has(TableNow, last.user, id, "none") = [b |-> FALSE, err |-> Nil]

\* a user who holds nothing of a kind comes to hold something only by an Add
\* or a Replace of that kind for that user
HeldOnlyByAddOrReplace ==
    \A u \in Users :
        /\ (IdsOf(userRoles, u) = {} /\ IdsOf(userRoles', u) # {}) =>
              (last'.op \in {"AddRoles", "ReplaceRoles"} /\ last'.user = u)
        /\ (IdsOf(userPermissions, u) = {} /\ IdsOf(userPermissions', u) # {}) =>
              (last'.op \in {"AddPermissions", "ReplacePermissions"} /\ last'.user = u)

\* C11: ClearRoles(U) / ClearPermissions(U) on a healthy store returns no
\* error and deletes every row of that kind for U, however many there are,
\* so that every HasAnyRoles(U, R) with non-empty R and every HasRole(U, r)
\* is false afterwards, and stays so until an Add or Replace for U.
C11_ClearLeavesNothing == [](ClearedNow) /\ [][HeldOnlyByAddOrReplace]_vars

\* ClearRoles has just deleted the two roles a user held
C11_Witness ==
    /\ last.op = "ClearRoles"
    /\ Healthy
    /\ Cardinality(BeforeOf(last.user)) = 2
    /\ NowOf(last.user) = {}

\* -------------------------------------------------------------- C12
Mutators == {"AddRoles", "ReplaceRoles", "RemoveRoles", "ClearRoles",
             "AddPermissions", "ReplacePermissions", "RemovePermissions", "ClearPermissions"}

\* C12: a mutating call (Add, Replace, Remove or Clear) that returns an error
\* leaves both tables exactly as they were before the call.
C12_FailedMutationChangesNothing ==
    (last.op \in Mutators /\ last.err # Nil) =>
        (userRoles = preRoles /\ userPermissions = prePermissions)

\* an AddRoles of two roles the user lacked, failed by the store: none of
\* the two was inserted
C12_Witness ==
    /\ last.op = "AddRoles"
    /\ last.err = ErrStorage
    /\ Cardinality(Range(last.arg) \ BeforeOf(last.user)) = 2
    /\ NowOf(last.user) = BeforeOf(last.user)

C15_QueriesChangeNothing ==
    last.op \in Queries => (userRoles = preRoles /\ userPermissions = prePermissions)

\* HasRole has answered false, for a role the user lacks, on tables that both
\* hold rows
C15_Witness ==
    /\ last.op = "HasRole"
    /\ last.err = Nil
    /\ last.b = FALSE
    /\ userRoles # EmptyTable
    /\ userPermissions # EmptyTable
    /\ last.arg[1] \notin NowOf(last.user)

\* -------------------------------------------------------------- C16
\* what a direct-permission query returns, told from user_permissions, its
\* arguments and whether the store failed the request, and nothing else
DirectAnswer(op, u, c, f) ==
    LET held == IdsOf(userPermissions, u) \cap Range(c)
    IN  IF f = "statement" THEN op = "HasAllDirectPermissions" /\ c = <<>>
        ELSE IF op = "HasAllDirectPermissions" THEN Len(c) = Cardinality(held)
        ELSE held # {}

\* C16: the result of HasDirectPermission, HasAllDirectPermissions and
\* HasAnyDirectPermissions is determined by user_permissions alone, whatever
\* user_roles holds; and after any role operation (AddRoles, ReplaceRoles,
\* RemoveRoles, ClearRoles) every direct-permission query answers as it would
\* have answered before it.
C16_DirectQueriesIgnoreRoles ==
    /\ last.op \in {"HasDirectPermission", "HasAllDirectPermissions", "HasAnyDirectPermissions"}
          => last.b = DirectAnswer(last.op, last.user, last.arg, last.fail)
    /\ last.op \in {"AddRoles", "ReplaceRoles", "RemoveRoles", "ClearRoles"} =>
          \A u \in Users, f \in FailPoints :
              /\ \A id \in Ids : Has(userPermissions, u, id, f) = Has(prePermissions, u, id, f)
              /\ \A c \in Collections :
                    /\ HasAll(userPermissions, u, c, f) = HasAll(prePermissions, u, c, f)
                    /\ HasAny(userPermissions, u, c, f) = HasAny(prePermissions, u, c, f)

\* HasDirectPermission has answered false for an ID that the user holds as a
\* role and not as a direct permission
C16_Witness ==
    /\ last.op = "HasDirectPermission"
    /\ Healthy
    /\ last.b = FALSE
    /\ last.arg[1] \in IdsOf(userRoles, last.user)
    /\ last.arg[1] \notin IdsOf(userPermissions, last.user)

\* -------------------------------------------------------------- C17
\* the role operation that a permission operation mirrors
RoleTwin(op) ==
    CASE op = "AddPermissions" -> "AddRoles"
      [] op = "ReplacePermissions" -> "ReplaceRoles"
      [] op = "RemovePermissions" -> "RemoveRoles"
      [] op = "ClearPermissions" -> "ClearRoles"
      [] op = "HasDirectPermission" -> "HasRole"
      [] op = "HasAllDirectPermissions" -> "HasAllRoles"
      [] op = "HasAnyDirectPermissions" -> "HasAnyRoles"
      [] OTHER -> op

\* what role operation op gives on a user_roles table t: the table it leaves,
\* its error and its boolean
RoleOutcome(op, t, u, c, f) ==
    LET mut(r) == [table |-> r.table, err |-> r.err, b |-> FALSE]
        qry(r) == [table |-> t, err |-> r.err, b |-> r.b]
    IN  CASE op = "AddRoles" -> mut(Add(t, u, c, f))
          [] op = "ReplaceRoles" -> mut(Replace(t, u, c, f))
          [] op = "RemoveRoles" -> mut(Remove(t, u, c, f))
          [] op = "ClearRoles" -> mut(Clear(t, u, f))
          [] op = "HasRole" -> qry(Has(t, u, c[1], f))
          [] op = "HasAllRoles" -> qry(HasAll(t, u, c, f))
          [] op = "HasAnyRoles" -> qry(HasAny(t, u, c, f))

\* C17: every call, on roles or on direct permissions, with the same user,
\* the same IDs and the same store failure, from the same rows of its kind,
\* returns the same error and the same boolean and leaves the same rows of
\* its kind; so the same sequence of calls run once on roles and once on
\* permissions agrees at every step.
C17_PermissionsMirrorRoles ==
    last.op # "none" =>
        [table |-> TableNow, err |-> last.err, b |-> last.b]
            = RoleOutcome(RoleTwin(last.op), TableBefore, last.user, last.arg, last.fail)

\* the same calls have been made on both kinds (the two tables hold the same
\* rows), the last one a ReplacePermissions that dropped an ID the user held
C17_Witness ==
    /\ last.op = "ReplacePermissions"
    /\ last.err = Nil
    /\ userPermissions = userRoles
    /\ BeforeOf(last.user) \ NowOf(last.user) # {}

\* -------------------------------------------------------------- C18
\* C18: a mutating call for user U, whatever its collection and whether it
\* succeeds or fails, leaves every other user's rows of its kind and every
\* row of the other kind as they were.
C18_OnlyTheUsersRowsOfTheKind ==
    /\ last.op \in {"AddRoles", "ReplaceRoles", "RemoveRoles", "ClearRoles"} =>
          /\ userPermissions = prePermissions
          /\ \A k \in Keys : k[1] # last.user => userRoles[k] = preRoles[k]
    /\ last.op \in {"AddPermissions", "ReplacePermissions", "RemovePermissions", "ClearPermissions"} =>
          /\ userRoles = preRoles
          /\ \A k \in Keys : k[1] # last.user => userPermissions[k] = prePermissions[k]

\* ReplaceRoles has changed the roles of a user who also holds permissions,
\* while another user holds roles
C18_Witness ==
    /\ last.op = "ReplaceRoles"
    /\ last.err = Nil
    /\ BeforeOf(last.user) \ NowOf(last.user) # {}
    /\ IdsOf(userPermissions, last.user) # {}
    /\ \E u \in Users \ {last.user} : IdsOf(userRoles, u) # {}

\* -------------------------------------------------------------- C13
\* the table that the calls committed so far leave when they run alone, one
\* after the other in the order of their commits, from rank n on
RECURSIVE InCommitOrder(_, _)
InCommitOrder(t, n) ==
    IF \A p \in Procs : tx[p].order # n THEN t
    ELSE LET p == CHOOSE q \in Procs : tx[q].order = n
         IN  InCommitOrder(AfterCall(t, p), n + 1)

\* C13: when concurrent mutating calls for the same user have committed,
\* the committed user_roles is what the same calls leave when run one after
\* the other in commit order (for two Replaces: exactly the argument of the
\* Replace that committed last).
C13_LastCommitWins ==
    (\A p \in Procs : tx[p].pc = "done" /\ tx[p].err = Nil) =>
        userRoles = InCommitOrder(preRoles, 1)

\* -------------------------------------------------------------- C19
Started(p) == tx[p].pc \in {"delete", "insert", "commit"}

\* C19: under fair scheduling, with a store that completes every statement,
\* every call that has started eventually returns (with success or with an
\* error), whatever the other caller does.
C19_EveryCallReturns == \A p \in Procs : Started(p) ~> (tx[p].pc = "done")

\* two ReplaceRoles on the same user, each in its INSERT, each waiting on a
\* key the other has inserted and not committed
C19_Witness ==
    \A p \in Procs :
        /\ tx[p].op = "ReplaceRoles"
        /\ tx[p].pc = "insert"
        /\ tx[p].ins # {}
        /\ Rows(tx[p].user, tx[p].arg)[tx[p].idx + 1] \in LockedByOthers(p)

====
